---- MODULE Spec2Model ----
(***************************************************************************)
(* A model of agnosticmapper's Mapper (src/agnosticmapper/agnosticmapper.py) *)
(* : the label index, the label resolver, the structural mapper, the       *)
(* namespace pass and the identity pass, as the steps of Mapper.map.       *)
(*                                                                         *)
(* JSON values (the canonical tree, the JSON-LD descriptors) are tagged    *)
(* records [t, v]: t is the Python type, v the payload. A scalar's payload *)
(* is the text str() gives for it; a dict's payload is the sequence of its *)
(* <<key, value>> pairs in insertion order; a list's payload is the        *)
(* sequence of its elements.                                               *)
(***************************************************************************)
EXTENDS Integers, Sequences, FiniteSets, TLC

VARIABLES
    pc,                                   \* position inside Mapper.map
    run,                                  \* number of map invocations so far
    canon, ontos, context, entityContextTuple,
    ignoreEntityInstantiationList,        \* the arguments of map
    raiseEnv,                             \* environment variable RAISE
    g,                                    \* self.g, the triples ingested
    labelmaps, altlabelmaps,              \* the label index
    ignoreEntityInstantiationEntityList,
    classMap,                             \* entity table of __create_jsonld_instances
    classList,                            \* self.classList
    idMap,                                \* identity map of __apply_uuids
    incrementalInt,                       \* the module-level counter
    uuidCount,                            \* number of gen_uuid() calls so far
    outcome,                              \* how the invocation ended
    runLog,                               \* per run: what each step started from
    contextGiven,                         \* the context mapping as the caller passed it
    occurrences,                          \* the descriptors built, one per occurrence
    replaced,                             \* the identifiers the identity pass replaced
    rLabel, rDefault, rResult             \* one direct label resolution call

vars == <<pc, run, canon, ontos, context, entityContextTuple,
          ignoreEntityInstantiationList, raiseEnv, g, labelmaps, altlabelmaps,
          ignoreEntityInstantiationEntityList, classMap, classList, idMap,
          incrementalInt, uuidCount, outcome, runLog, contextGiven,
          occurrences, replaced, rLabel, rDefault, rResult>>

(***************************************************************************)
(* Bounds of the model.                                                    *)
(***************************************************************************)
MaxRuns == 2          \* map invocations in one process
MaxOccurrences == 2   \* top-level objects in the canonical list
MaxTriples == 2       \* label triples in the ontology of the resolver runs

(***************************************************************************)
(* JSON values.                                                            *)
(***************************************************************************)
JStr(s) == [t |-> "str", v |-> s]
JInt(s) == [t |-> "int", v |-> s]
JBool(s) == [t |-> "bool", v |-> s]
JNull == [t |-> "null", v |-> "None"]
JDict(items) == [t |-> "dict", v |-> items]
JList(elems) == [t |-> "list", v |-> elems]

\* is_primitive: isinstance(element, (bool, int, float, str))
is_primitive(element) == element.t \in {"bool", "int", "float", "str"}

\* Python truthiness, as used by "not default" and "if additionalType"
Truthy(val) ==
    CASE val.t = "str" -> val.v # ""
      [] val.t = "int" -> val.v # "0"
      [] val.t = "bool" -> val.v = "True"
      [] val.t = "null" -> FALSE
      [] OTHER -> Len(val.v) > 0

\* str(value) and the f-string conversion of a value
PyStr(val) ==
    CASE val.t \in {"str", "int", "bool", "null"} -> val.v
      [] val.t = "dict" -> "{...}"
      [] OTHER -> "[...]"

DictKeys(d) == {d.v[i][1] : i \in DOMAIN d.v}
DictHas(d, k) == \E i \in DOMAIN d.v : d.v[i][1] = k
DictGet(d, k) == d.v[CHOOSE i \in DOMAIN d.v : d.v[i][1] = k][2]
DictLen(d) == Len(d.v)
\* d[k] = val : an existing key keeps its position, a new key is appended
DictSet(d, k, val) ==
    IF DictHas(d, k)
    THEN JDict([i \in DOMAIN d.v |-> IF d.v[i][1] = k THEN <<k, val>> ELSE d.v[i]])
    ELSE JDict(Append(d.v, <<k, val>>))

RECURSIVE DictUpdateFrom(_, _, _)
DictUpdateFrom(d, e, i) ==
    IF i > Len(e.v) THEN d
    ELSE DictUpdateFrom(DictSet(d, e.v[i][1], e.v[i][2]), e, i + 1)
\* d.update(e)
DictUpdate(d, e) == DictUpdateFrom(d, e, 1)

(***************************************************************************)
(* Strings.                                                                *)
(***************************************************************************)
UpperChars == {"A", "B", "C", "D", "E", "F", "G", "H", "I", "J", "K", "L", "M",
               "N", "O", "P", "Q", "R", "S", "T", "U", "V", "W", "X", "Y", "Z"}
LowerChars == {"a", "b", "c", "d", "e", "f", "g", "h", "i", "j", "k", "l", "m",
               "n", "o", "p", "q", "r", "s", "t", "u", "v", "w", "x", "y", "z"}
\* key[0].isupper() and key[0].islower()
FirstIsUpper(key) == SubSeq(key, 1, 1) \in UpperChars
FirstIsLower(key) == SubSeq(key, 1, 1) \in LowerChars

StartsWith(s, p) == Len(s) >= Len(p) /\ SubSeq(s, 1, Len(p)) = p

RECURSIVE StrRemove(_, _)
\* s.replace(old, "")
StrRemove(s, old) ==
    IF old = "" \/ Len(s) < Len(old) THEN s
    ELSE IF SubSeq(s, 1, Len(old)) = old
         THEN StrRemove(SubSeq(s, Len(old) + 1, Len(s)), old)
         ELSE SubSeq(s, 1, 1) \o StrRemove(SubSeq(s, 2, Len(s)), old)

\* s[:6]
First6(s) == IF Len(s) <= 6 THEN s ELSE SubSeq(s, 1, 6)

\* additionalType.strip() is non-empty
StripTruthy(s) == \E i \in 1..Len(s) : SubSeq(s, i, i) # " "

(***************************************************************************)
(* The label index.                                                        *)
(***************************************************************************)
RdfsLabel == "http://www.w3.org/2000/01/rdf-schema#label"
BaseLangs == {"en", "en-us", "en-gb", "nolang", "de"}

\* A triple of the graph: [pred, lbl, lang, cls]; lang "" is a literal
\* without language tag.
LangOf(row) == IF row.lang = "" THEN "nolang" ELSE row.lang

\* The subjects one row set gives for <<language, label>> pairs: every way
\* of keeping, for each pair, one of its subjects (the row written last; the
\* order of the rows of a query is not fixed).
RECURSIVE LastWrites(_, _)
LastWrites(rows, pairs) ==
    IF pairs = {} THEN {[p \in {} |-> ""]}
    ELSE LET p == CHOOSE x \in pairs : TRUE
             clss == {r.cls : r \in {x \in rows : LangOf(x) = p[1] /\ x.lbl = p[2]}}
         IN {[q \in DOMAIN f \cup {p} |-> IF q = p THEN c ELSE f[q]] :
                f \in LastWrites(rows, pairs \ {p}), c \in clss}

\* The maps one query can build: one map per language, the five prepared
\* languages and every other language met
MapsOf(rows) ==
    LET langs == BaseLangs \cup {LangOf(r) : r \in rows}
        lbls(l) == {r.lbl : r \in {x \in rows : LangOf(x) = l}}
    IN {[l \in langs |-> [b \in lbls(l) |-> w[<<l, b>>]]] :
           w \in LastWrites(rows, {<<LangOf(r), r.lbl>> : r \in rows})}

\* A search order that tries the English labels before the alternate labels
SearchOrderLabelsFirst ==
    << <<"lbl", "en">>, <<"alt", "en">>, <<"alt", "en-us">>, <<"alt", "en-gb">>,
       <<"alt", "nolang">>, <<"lbl", "en-us">>, <<"lbl", "en-gb">>,
       <<"lbl", "nolang">>, <<"alt", "de">>, <<"lbl", "de">> >>

\* The search order of __get_class_by_label: <<map, language>>
SearchOrder == << <<"alt", "en">>, <<"alt", "en-us">>, <<"alt", "en-gb">>,
                  <<"alt", "nolang">>, <<"lbl", "en">>, <<"lbl", "en-us">>,
                  <<"lbl", "en-gb">>, <<"lbl", "nolang">>, <<"alt", "de">>,
                  <<"lbl", "de">> >>

MapAt(alm, lm, i) ==
    IF SearchOrder[i][1] = "alt" THEN alm[SearchOrder[i][2]] ELSE lm[SearchOrder[i][2]]

\* label in map: the keys of the maps are strings
InMap(label, m) == label.t = "str" /\ label.v \in DOMAIN m

\* Mapper.__get_class_by_label: [raised, val]
GetClassByLabel(label, default, alm, lm) ==
    IF label.t = "list" THEN [raised |-> FALSE, val |-> default]
    ELSE IF \E i \in DOMAIN SearchOrder : InMap(label, MapAt(alm, lm, i))
    THEN LET first == CHOOSE i \in DOMAIN SearchOrder :
                         /\ InMap(label, MapAt(alm, lm, i))
                         /\ \A j \in 1..(i - 1) : ~InMap(label, MapAt(alm, lm, j))
         IN [raised |-> FALSE, val |-> JStr(MapAt(alm, lm, first)[label.v])]
    ELSE IF ~Truthy(default) THEN [raised |-> TRUE, val |-> JNull]
    ELSE [raised |-> FALSE, val |-> default]

(***************************************************************************)
(* The structural mapper: __create_jsonld_instances and its nested         *)
(* __fill_class_map. The traversal's mutable state is threaded as          *)
(* st = [cm, ctr, occ, err]: the entity table classMap, the module-level   *)
(* counter, the log of the descriptors built (one per occurrence of an     *)
(* entity) and the exception raised ("" for none).   env = [alm, lm, ign]  *)
(* holds the label index and the ignore list.                              *)
(***************************************************************************)
Resolve(env, label, default) == GetClassByLabel(label, default, env.alm, env.lm)

\* an exception has been raised in the traversal
Failed(st) == st.err # ""

\* A counter that starts again with every call instead of going on
GetIncrementalIntRestarted(ctr) == 1

\* get_incremental_int
GetIncrementalInt(ctr) == ctr + 1

\* key in tmpListHandler
InListHandler(key, lh) ==
    CASE lh.t = "list" -> \E i \in DOMAIN lh.v : lh.v[i] = JStr(key)
      [] lh.t = "dict" -> DictHas(lh, key)
      [] OTHER -> FALSE

\* An identifier that is taken from the counter whenever the field named by
\* hasIdentifier is not a field of the object
MakeIdentifierOrCounter(key, value, ctr) ==
    IF DictHas(value, "hasIdentifier")
       /\ DictGet(value, "hasIdentifier").t = "str"
       /\ DictHas(value, DictGet(value, "hasIdentifier").v)
    THEN [id |-> key \o "_" \o PyStr(DictGet(value, DictGet(value, "hasIdentifier").v)),
          ctr |-> ctr]
    ELSE [id |-> key \o "_" \o ToString(ctr + 1), ctr |-> ctr + 1]

\* try: value.get(value["hasIdentifier"], value["hasIdentifier"]) ...
\* except: the counter
MakeIdentifier(key, value, ctr) ==
    IF DictHas(value, "hasIdentifier")
       /\ DictGet(value, "hasIdentifier").t \notin {"dict", "list"}
    THEN LET hid == DictGet(value, "hasIdentifier")
             identifier == IF hid.t = "str" /\ DictHas(value, hid.v)
                           THEN DictGet(value, hid.v) ELSE hid
         IN [id |-> key \o "_" \o PyStr(identifier), ctr |-> ctr]
    ELSE [id |-> key \o "_" \o ToString(GetIncrementalInt(ctr)),
          ctr |-> GetIncrementalInt(ctr)]

\* the additionalTypes loop: [types, err]
RECURSIVE AdditionalTypes(_, _, _, _)
AdditionalTypes(env, ats, i, types) ==
    IF i > Len(ats) THEN [types |-> types, err |-> FALSE]
    ELSE IF ~Truthy(ats[i]) THEN AdditionalTypes(env, ats, i + 1, types)
    ELSE IF ats[i].t # "str" THEN [types |-> types, err |-> TRUE]
    ELSE IF ~StripTruthy(ats[i].v) THEN AdditionalTypes(env, ats, i + 1, types)
    ELSE AdditionalTypes(env, ats, i + 1,
                         Append(types, Resolve(env, ats[i], ats[i]).val))

\* for k, v in subClassMap.items(): if not k == "hasIdentifier": ldCls[k] = v
RECURSIVE CopySub(_, _, _)
CopySub(ldCls, sub, i) ==
    IF i > Len(sub.v) THEN ldCls
    ELSE CopySub(IF sub.v[i][1] = "hasIdentifier" THEN ldCls
                 ELSE DictSet(ldCls, sub.v[i][1], sub.v[i][2]), sub, i + 1)

\* "Add to the classMap": a new identifier is stored; a known one is updated
\* when the new descriptor has more keys than the stored one
MergeIntoClassMap(cm, identifier, ldCls) ==
    IF ~DictHas(cm, identifier) THEN DictSet(cm, identifier, ldCls)
    ELSE IF DictLen(ldCls) > DictLen(DictGet(cm, identifier))
         THEN DictSet(cm, identifier, DictUpdate(DictGet(cm, identifier), ldCls))
         ELSE cm

\* value of a scalar key: a reference for a key of the ignore list
ScalarValue(env, key, value) ==
    IF key \in env.ign
    THEN LET r == Resolve(env, value, value)
         IN [raised |-> r.raised, val |-> JDict(<< <<"@id", r.val>> >>)]
    ELSE [raised |-> FALSE, val |-> value]

\* the result of a list whose elements were mapped to tmp
ListResult(tmp, isOrderedList) ==
    IF isOrderedList THEN JDict(<< <<"@list", JList(tmp)>> >>) ELSE JList(tmp)

\* the result of a list: literal wrappers if every element is a primitive
AllPrimitive(elems) == \A i \in DOMAIN elems : is_primitive(elems[i])
ValueWrappers(elems) ==
    JList([i \in DOMAIN elems |-> JDict(<< <<"@value", elems[i]>> >>)])

RECURSIVE FillClassMap(_, _, _, _), FillItems(_, _, _, _, _, _),
          FillElems(_, _, _, _, _), FillItem(_, _, _, _, _, _),
          BuildEntity(_, _, _, _, _, _)

\* lines 324-354: the descriptor of an entity and its merge into classMap
BuildEntity(env, key, cls, value, identifier, st) ==
    LET at == IF DictHas(value, "additionalTypes")
                 /\ DictGet(value, "additionalTypes").t = "list"
              THEN AdditionalTypes(env, DictGet(value, "additionalTypes").v, 1, <<>>)
              ELSE [types |-> <<>>, err |-> FALSE]
        types == <<cls>> \o at.types
        labelKey == Resolve(env, JStr("label"), JStr(RdfsLabel)).val.v
        ld0 == DictSet(JDict(<< <<"@type", JList(types)>>,
                                <<"@id", JStr(identifier)>> >>),
                       labelKey, JStr(key))
        sub == FillClassMap(env, value, FALSE, st)
        ldCls == CopySub(ld0, sub.res, 1)
    IN IF at.err THEN [st EXCEPT !.err = "AttributeError"]
       ELSE IF Failed(sub.st) THEN sub.st
       ELSE [sub.st EXCEPT !.cm = MergeIntoClassMap(sub.st.cm, identifier, ldCls),
                           !.occ = Append(@, [id |-> identifier, ldCls |-> ldCls,
                                              src |-> value, key |-> key,
                                              ctr |-> st.ctr])]

\* one round of "for key, value in iterable.items()": [tmp, st]
FillItem(env, key, rawValue, lh, tmp, st) ==
    LET value == IF key = "hasIdentifier" THEN JStr(PyStr(rawValue)) ELSE rawValue
        cls == Resolve(env, JStr(key), JStr("default")).val
    IN IF key = "listHandler" THEN [tmp |-> tmp, st |-> st]
       ELSE IF FirstIsUpper(key) /\ value.t = "dict"
       THEN LET mk == MakeIdentifier(key, value, st.ctr)
                st1 == [st EXCEPT !.ctr = mk.ctr]
                st2 == IF \A k \in DictKeys(value) : k = "hasIdentifier" THEN st1
                       ELSE BuildEntity(env, key, cls, value, mk.id, st1)
            IN [tmp |-> DictSet(tmp, "@id", JStr(mk.id)), st |-> st2]
       ELSE IF FirstIsLower(key) /\ value.t = "dict"
       THEN [tmp |-> DictSet(tmp, key,
                        JDict(<< <<"@id", JStr(key \o "_sub_"
                                  \o ToString(GetIncrementalInt(st.ctr)))>> >>)),
             st |-> [st EXCEPT !.ctr = GetIncrementalInt(st.ctr)]]
       ELSE IF value.t = "list"
       THEN LET r == FillClassMap(env, value, InListHandler(key, lh), st)
            IN [tmp |-> DictSet(tmp, key, r.res), st |-> r.st]
       ELSE IF key # "hasIdentifier" /\ value.t # "dict"
       THEN LET sv == ScalarValue(env, key, value)
            IN IF sv.raised THEN [tmp |-> tmp, st |-> [st EXCEPT !.err = "LabelError"]]
               ELSE [tmp |-> DictSet(tmp, key, sv.val), st |-> st]
       ELSE [tmp |-> tmp, st |-> st]

FillItems(env, items, i, lh, tmp, st) ==
    IF Failed(st) \/ i > Len(items) THEN [res |-> tmp, st |-> st]
    ELSE LET r == FillItem(env, items[i][1], items[i][2], lh, tmp, st)
         IN FillItems(env, items, i + 1, lh, r.tmp, r.st)

FillElems(env, elems, i, tmp, st) ==
    IF Failed(st) \/ i > Len(elems) THEN [res |-> tmp, st |-> st]
    ELSE LET r == FillClassMap(env, elems[i], FALSE, st)
         IN FillElems(env, elems, i + 1, Append(tmp, r.res), r.st)

\* __fill_class_map(iterable, isOrderedList): [res, st]
FillClassMap(env, iterable, isOrderedList, st) ==
    IF iterable.t = "dict"
    THEN LET lh == IF DictHas(iterable, "listHandler")
                   THEN DictGet(iterable, "listHandler") ELSE JList(<<>>)
         IN FillItems(env, iterable.v, 1, lh, JDict(<<>>), st)
    ELSE IF iterable.t = "list"
    THEN IF AllPrimitive(iterable.v)
         THEN [res |-> ValueWrappers(iterable.v), st |-> st]
         ELSE LET r == FillElems(env, iterable.v, 1, <<>>, st)
              IN [res |-> ListResult(r.res, isOrderedList), st |-> r.st]
    ELSE [res |-> JNull, st |-> st]

\* classList = [v for v in classMap.values()]
DictValues(d) == [i \in DOMAIN d.v |-> d.v[i][2]]

(***************************************************************************)
(* The namespace pass: __apply_namespaces and its nested __set_namespaces. *)
(* The result is [res, err].                                               *)
(***************************************************************************)
RECURSIVE SetNamespaces(_, _), SetNsItems(_, _, _, _), SetNsElems(_, _, _, _)

\* the value stored for a key whose value is not a list
NsPlainValue(env, value) == [res |-> value, err |-> FALSE]

SetNsItems(env, items, i, tmp) ==
    IF i > Len(items) THEN [res |-> tmp, err |-> FALSE]
    ELSE LET key == items[i][1]
             value == items[i][2]
             tmp1 == IF key = "@id" THEN DictSet(tmp, key, value) ELSE tmp
             rk == Resolve(env, JStr(key), JStr(key))
         IN IF key = "@type"
            THEN LET rt == Resolve(env, value, value)
                 IN IF rt.raised THEN [res |-> tmp1, err |-> TRUE]
                    ELSE SetNsItems(env, items, i + 1, DictSet(tmp1, key, rt.val))
            ELSE IF value.t = "list"
            THEN LET sub == SetNamespaces(env, value)
                 IN IF rk.raised \/ sub.err THEN [res |-> tmp1, err |-> TRUE]
                    ELSE SetNsItems(env, items, i + 1, DictSet(tmp1, rk.val.v, sub.res))
            ELSE IF key = "@value"
            THEN [res |-> JDict(<< <<"@value", value>> >>), err |-> FALSE]
            ELSE IF key # "@type" /\ key # "@id"
            THEN LET sub == NsPlainValue(env, value)
                 IN IF rk.raised \/ sub.err THEN [res |-> tmp1, err |-> TRUE]
                    ELSE SetNsItems(env, items, i + 1, DictSet(tmp1, rk.val.v, sub.res))
            ELSE SetNsItems(env, items, i + 1, tmp1)

SetNsElems(env, elems, i, tmp) ==
    IF i > Len(elems) THEN [res |-> JList(tmp), err |-> FALSE]
    ELSE LET r == SetNamespaces(env, elems[i])
         IN IF r.err THEN [res |-> JList(tmp), err |-> TRUE]
            ELSE SetNsElems(env, elems, i + 1, Append(tmp, r.res))

\* __set_namespaces(iterable)
SetNamespaces(env, iterable) ==
    IF iterable.t = "dict" THEN SetNsItems(env, iterable.v, 1, JDict(<<>>))
    ELSE IF iterable.t = "list" THEN SetNsElems(env, iterable.v, 1, <<>>)
    ELSE [res |-> JNull, err |-> FALSE]

(***************************************************************************)
(* The identity pass: __apply_uuids and its nested __set_uuid. The pass    *)
(* changes the descriptors in place; here it returns the changed value.    *)
(* st = [idMap, uuid, log, err], log being the replacements made, in order,  *)
(* each <<interim identifier, final identifier>>; cfg = [alm, lm, ignEnt, ect] holds the label   *)
(* index, ignoreEntityInstantiationEntityList and entityContextTuple.      *)
(***************************************************************************)
\* A token generator that gives the same token on every call
GenUuidFixed(n) == "u0c0de"

\* gen_uuid: the n-th token, every call a token never given before
GenUuid(n) == "u" \o ToString(n) \o "c0de"

\* the final identifier of an interim identifier seen for the first time
FinalIdentifier(ect, value, uuid) ==
    IF StartsWith(value, ect[1] \o ":") THEN value ELSE ect[2] \o uuid

\* the @id branch of __set_uuid on dict d: [res, st]
SetUuidId(cfg, d, value, st) ==
    LET n == st.uuid + 1
        known == DictHas(st.idMap, value.v)
        idm == IF known THEN st.idMap
               ELSE DictSet(st.idMap, value.v,
                            JStr(FinalIdentifier(cfg.ect, value.v, GenUuid(n))))
        final == DictGet(idm, value.v).v
        d1 == DictSet(d, "@id", JStr(final))
        labelKey == GetClassByLabel(JStr("label"), JStr(RdfsLabel), cfg.alm, cfg.lm).val.v
        labelAppendix == IF DictHas(d1, RdfsLabel) THEN PyStr(DictGet(d1, RdfsLabel))
                         ELSE PyStr(value)
        shortid == First6(StrRemove(final, cfg.ect[2]))
        d2 == IF DictHas(d1, labelKey)
              THEN DictSet(d1, labelKey, JStr(shortid \o " " \o labelAppendix))
              ELSE d1
    IN IF value.t # "str"
       THEN [res |-> d, st |-> [st EXCEPT !.uuid = n, !.err = "AttributeError"]]
       ELSE [res |-> d2, st |-> [st EXCEPT !.uuid = n, !.idMap = idm,
                                           !.log = Append(@, <<value.v, final>>)]]

\* parentKey not in self.ignoreEntityInstantiationEntityList
Instantiated(cfg, parentKey) == \A i \in DOMAIN cfg.ignEnt : cfg.ignEnt[i] # parentKey

RECURSIVE SetUuid(_, _, _, _), SetUuidItems(_, _, _, _, _), SetUuidElems(_, _, _, _, _)

SetUuidItems(cfg, d, i, parentKey, st) ==
    IF Failed(st) \/ i > Len(d.v) THEN [res |-> d, st |-> st]
    ELSE LET key == d.v[i][1]
             value == d.v[i][2]
         IN IF key = "@id" /\ Instantiated(cfg, parentKey)
            THEN LET r == SetUuidId(cfg, d, value, st)
                 IN SetUuidItems(cfg, r.res, i + 1, parentKey, r.st)
            ELSE IF value.t \in {"list", "dict"}
            THEN LET r == SetUuid(cfg, value, JStr(key), st)
                 IN SetUuidItems(cfg, DictSet(d, key, r.res), i + 1, parentKey, r.st)
            ELSE SetUuidItems(cfg, d, i + 1, parentKey, st)

SetUuidElems(cfg, elems, i, tmp, st) ==
    IF i > Len(elems) THEN [res |-> JList(tmp), st |-> st]
    ELSE IF Failed(st) THEN SetUuidElems(cfg, elems, i + 1, Append(tmp, elems[i]), st)
    ELSE LET r == SetUuid(cfg, elems[i], JNull, st)
         IN SetUuidElems(cfg, elems, i + 1, Append(tmp, r.res), r.st)

\* __set_uuid(iterable, parentKey)
SetUuid(cfg, iterable, parentKey, st) ==
    IF iterable.t = "dict" THEN SetUuidItems(cfg, iterable, 1, parentKey, st)
    ELSE IF iterable.t = "list" THEN SetUuidElems(cfg, iterable.v, 1, <<>>, st)
    ELSE [res |-> iterable, st |-> st]

\* "apply context": elem["@context"] = self.context
ApplyContext(cl, ctx) == JList([i \in DOMAIN cl.v |-> DictSet(cl.v[i], "@context", ctx)])

(***************************************************************************)
(* The inputs of the model.                                                *)
(***************************************************************************)
Triple(pred, lbl, lang, cls) == [pred |-> pred, lbl |-> lbl, lang |-> lang, cls |-> cls]

\* An ontology document that parses, and one that does not
GoodOnto == [ok |-> TRUE,
             triples |-> {Triple("lbl", "Person", "en", "ex:Person"),
                          Triple("lbl", "name", "en", "ex:name"),
                          Triple("lbl", "unit", "", "ex:unit"),
                          Triple("alt", "Celsius", "en", "ex:Celsius"),
                          Triple("lbl", "items", "de", "ex:items")}]
BadOnto == [ok |-> FALSE, triples |-> {}]
OntoLists == {<<GoodOnto>>, <<GoodOnto, BadOnto>>}

Obj1(k1, v1) == JDict(<< <<k1, v1>> >>)
Obj2(k1, v1, k2, v2) == JDict(<< <<k1, v1>>, <<k2, v2>> >>)
Obj3(k1, v1, k2, v2, k3, v3) == JDict(<< <<k1, v1>>, <<k2, v2>>, <<k3, v3>> >>)
Obj4(k1, v1, k2, v2, k3, v3, k4, v4) ==
    JDict(<< <<k1, v1>>, <<k2, v2>>, <<k3, v3>>, <<k4, v4>> >>)

\* The top-level objects a canonical document is made of
CanonObjects ==
    { Obj1("Person", Obj3("hasIdentifier", JStr("id"), "id", JStr("42"),
                          "name", JStr("Ada"))),
      Obj1("Person", Obj4("hasIdentifier", JStr("id"), "id", JInt("42"),
                          "age", JInt("36"), "unit", JStr("Celsius"))),
      Obj1("Person", Obj2("name", JStr("Bob"), "age", JInt("1"))),
      Obj1("Person", Obj3("hasIdentifier", JStr("id"), "id", JStr("1"),
                          "name", JStr("Al"))),
      Obj1("Person", Obj2("hasIdentifier", JStr("id"), "name", JStr("Cy"))),
      Obj1("Measurement", Obj2("value", JInt("0"), "unit", JStr(""))),
      Obj1("Sample", Obj4("listHandler", JList(<<JStr("items"), JStr("tags")>>),
                          "items", JList(<<Obj2("unit", JStr("Celsius"),
                                                "name", JStr("x"))>>),
                          "tags", JList(<<JStr("a"), JStr("b")>>),
                          "parts", JList(<<Obj1("unit", JStr("Celsius"))>>))),
      Obj1("Person", Obj4("hasIdentifier", JStr("id"), "id", JStr("7"),
                          "address", Obj1("City", Obj1("name", JStr("X"))),
                          "entity:ref", Obj1("x", JInt("1")))),
      Obj1("Person", Obj3("hasIdentifier", JStr("id"), "id", JStr("7"),
                          "Address", Obj1("street", JStr("s")))) }

\* canon: a list of one to MaxOccurrences objects
RECURSIVE SeqsUpTo(_, _)
SeqsUpTo(S, n) ==
    IF n = 0 THEN {<<>>}
    ELSE LET shorter == SeqsUpTo(S, n - 1)
         IN shorter \cup {Append(q, x) : q \in shorter, x \in S}
Canons == {JList(q) : q \in SeqsUpTo(CanonObjects, MaxOccurrences) \ {<<>>}}

EntityContextTuples == {<<"entity", "http://ex.org/e/">>, <<"entity">>,
                        <<"entity", "http://ex.org/e/", "extra">>}
IgnoreLists == {<<>>, <<"unit">>}
RaiseEnvs == {"", "true"}
Contexts == {Obj1("ex", JStr("http://ex.org/"))}

(***************************************************************************)
(* The state machine: one action per step of Mapper.map.                   *)
(***************************************************************************)
Init ==
    /\ pc = "idle"
    /\ run = 0
    /\ canon = JNull
    /\ ontos = <<>>
    /\ context = JNull
    /\ contextGiven = JNull
    /\ entityContextTuple = <<>>
    /\ ignoreEntityInstantiationList = <<>>
    /\ raiseEnv = ""
    /\ g = {}
    /\ labelmaps = <<>>
    /\ altlabelmaps = <<>>
    /\ ignoreEntityInstantiationEntityList = <<>>
    /\ classMap = JDict(<<>>)
    /\ classList = JList(<<>>)
    /\ idMap = JDict(<<>>)
    /\ incrementalInt = 0
    /\ uuidCount = 0
    /\ outcome = "none"
    /\ runLog = <<>>
    /\ occurrences = <<>>
    /\ replaced = <<>>
    /\ rLabel = JNull
    /\ rDefault = JNull
    /\ rResult = [raised |-> FALSE, val |-> JNull]

resolverVars == <<rLabel, rDefault, rResult>>
logVars == <<runLog, occurrences, replaced>>
inputVars == <<canon, ontos, entityContextTuple, ignoreEntityInstantiationList,
               raiseEnv, contextGiven>>

NewRun == [int |-> incrementalInt, end |-> incrementalInt,
           cm |-> JNull, idm |-> JNull, ids |-> {}, mapped |-> FALSE]

\* map is entered: lines 116-119, self.canon = canon, self.g = rdflib.Graph()
Enter ==
    /\ run' = run + 1
    /\ runLog' = Append(runLog, NewRun)
    /\ g' = {}
    /\ outcome' = "none"
    /\ pc' = "parse"
    /\ UNCHANGED <<labelmaps, altlabelmaps, ignoreEntityInstantiationEntityList,
                   classMap, classList, idMap, incrementalInt, uuidCount,
                   occurrences, replaced>>
    /\ UNCHANGED resolverVars

\* the first call of map, with its arguments and the environment
Map ==
    /\ pc = "idle"
    /\ run = 0
    /\ \E c \in Canons, o \in OntoLists, x \in Contexts, e \in EntityContextTuples,
          i \in IgnoreLists, r \in RaiseEnvs :
          /\ canon' = c
          /\ ontos' = o
          /\ context' = x
          /\ contextGiven' = x
          /\ entityContextTuple' = e
          /\ ignoreEntityInstantiationList' = i
          /\ raiseEnv' = r
    /\ Enter

\* map is called again in the same process on the same inputs
MapAgain ==
    /\ pc \in {"returned", "raised"}
    /\ run < MaxRuns
    /\ UNCHANGED inputVars
    /\ UNCHANGED context
    /\ Enter

\* line 120: every ontology document is parsed into self.g, in order
RECURSIVE ParseAll(_, _, _)
ParseAll(docs, i, graph) ==
    IF i > Len(docs) THEN [g |-> graph, err |-> FALSE]
    ELSE IF ~docs[i].ok THEN [g |-> graph, err |-> TRUE]
    ELSE ParseAll(docs, i + 1, graph \cup docs[i].triples)

ParseOntos ==
    /\ pc = "parse"
    /\ LET r == ParseAll(ontos, 1, g)
       IN /\ g' = r.g
          /\ pc' = IF r.err THEN "raised" ELSE "check"
          /\ outcome' = IF r.err THEN "ParseError" ELSE outcome
    /\ UNCHANGED <<run, context, labelmaps, altlabelmaps,
                   ignoreEntityInstantiationEntityList, classMap, classList, idMap,
                   incrementalInt, uuidCount, runLog, occurrences, replaced>>
    /\ UNCHANGED inputVars
    /\ UNCHANGED resolverVars

\* lines 122-126: the entity context is checked and added to the context
CheckTuple ==
    /\ pc = "check"
    /\ IF Len(entityContextTuple) # 2
       THEN /\ pc' = "raised"
            /\ outcome' = "ConfigError"
            /\ UNCHANGED context
       ELSE /\ pc' = "labelmaps"
            /\ context' = DictSet(context, entityContextTuple[1],
                                  JStr(entityContextTuple[2]))
            /\ UNCHANGED outcome
    /\ UNCHANGED <<run, g, labelmaps, altlabelmaps,
                   ignoreEntityInstantiationEntityList, classMap, classList, idMap,
                   incrementalInt, uuidCount, runLog, occurrences, replaced>>
    /\ UNCHANGED inputVars
    /\ UNCHANGED resolverVars

\* __create_labelmaps: the two queries and the maps built from their rows
CreateLabelmapsAt(from, to) ==
    /\ pc = from
    /\ labelmaps' \in MapsOf({r \in g : r.pred = "lbl"})
    /\ altlabelmaps' \in MapsOf({r \in g : r.pred = "alt"})
    /\ pc' = to
    /\ UNCHANGED <<run, context, g, ignoreEntityInstantiationEntityList, classMap,
                   classList, idMap, incrementalInt, uuidCount, outcome, runLog,
                   occurrences, replaced>>
    /\ UNCHANGED inputVars
    /\ UNCHANGED resolverVars

CreateLabelmaps == CreateLabelmapsAt("labelmaps", "ignorelist")

\* __create_entity_instation_entity_list
RECURSIVE IgnoreEntities(_, _, _, _)
IgnoreEntities(env, list, i, acc) ==
    IF i > Len(list) THEN [res |-> acc, err |-> FALSE]
    ELSE LET r == Resolve(env, JStr(list[i]), JStr(list[i]))
         IN IF r.raised THEN [res |-> acc, err |-> TRUE]
            ELSE IgnoreEntities(env, list, i + 1, Append(acc, r.val))

Elems(q) == {q[i] : i \in DOMAIN q}
Env == [alm |-> altlabelmaps, lm |-> labelmaps,
        ign |-> Elems(ignoreEntityInstantiationList)]
Cfg == [alm |-> altlabelmaps, lm |-> labelmaps,
        ignEnt |-> ignoreEntityInstantiationEntityList, ect |-> entityContextTuple]

CreateEntityInstationEntityList ==
    /\ pc = "ignorelist"
    /\ LET r == IgnoreEntities(Env, ignoreEntityInstantiationList, 1, <<>>)
       IN /\ ignoreEntityInstantiationEntityList' = r.res
          /\ pc' = IF r.err THEN "raised" ELSE "jsonld"
          /\ outcome' = IF r.err THEN "LabelError" ELSE outcome
    /\ UNCHANGED <<run, context, g, labelmaps, altlabelmaps, classMap, classList,
                   idMap, incrementalInt, uuidCount, runLog, occurrences, replaced>>
    /\ UNCHANGED inputVars
    /\ UNCHANGED resolverVars

\* line 276, classMap = {}: the entity table a traversal starts from
EntryClassMap(previous) == JDict(<<>>)
\* line 438, idMap = {}: the identity map the identity pass starts from
EntryIdMap(previous) == JDict(<<>>)

\* __create_jsonld_instances
CreateJsonldInstances ==
    /\ pc = "jsonld"
    /\ LET entry == EntryClassMap(classMap)
           r == FillClassMap(Env, canon, FALSE,
                             [cm |-> entry, ctr |-> incrementalInt,
                              occ |-> <<>>, err |-> ""])
       IN /\ incrementalInt' = r.st.ctr
          /\ classMap' = r.st.cm
          /\ occurrences' = r.st.occ
          /\ runLog' = [runLog EXCEPT ![run].cm = entry, ![run].end = r.st.ctr,
                                      ![run].ids = DictKeys(r.st.cm),
                                      ![run].mapped = ~Failed(r.st)]
          /\ IF Failed(r.st)
             THEN /\ pc' = "raised"
                  /\ outcome' = r.st.err
                  /\ UNCHANGED classList
             ELSE /\ pc' = "namespaces"
                  /\ classList' = JList(DictValues(r.st.cm))
                  /\ UNCHANGED outcome
    /\ UNCHANGED <<run, context, g, labelmaps, altlabelmaps,
                   ignoreEntityInstantiationEntityList, idMap, uuidCount, replaced>>
    /\ UNCHANGED inputVars
    /\ UNCHANGED resolverVars

\* __apply_namespaces
ApplyNamespaces ==
    /\ pc = "namespaces"
    /\ LET r == SetNamespaces(Env, classList)
       IN IF r.err
          THEN /\ pc' = "raised"
               /\ outcome' = "LabelError"
               /\ UNCHANGED classList
          ELSE /\ pc' = "uuids"
               /\ classList' = r.res
               /\ UNCHANGED outcome
    /\ UNCHANGED <<run, context, g, labelmaps, altlabelmaps,
                   ignoreEntityInstantiationEntityList, classMap, idMap,
                   incrementalInt, uuidCount, runLog, occurrences, replaced>>
    /\ UNCHANGED inputVars
    /\ UNCHANGED resolverVars

\* __apply_uuids
ApplyUuids ==
    /\ pc = "uuids"
    /\ LET entry == EntryIdMap(idMap)
           r == SetUuid(Cfg, classList, JNull,
                        [idMap |-> entry, uuid |-> uuidCount, log |-> <<>>,
                         err |-> ""])
       IN /\ idMap' = r.st.idMap
          /\ uuidCount' = r.st.uuid
          /\ replaced' = r.st.log
          /\ runLog' = [runLog EXCEPT ![run].idm = entry]
          /\ IF Failed(r.st)
             THEN /\ pc' = "raised"
                  /\ outcome' = r.st.err
                  /\ classList' = r.res
             ELSE /\ pc' = "serialize"
                  /\ classList' = ApplyContext(r.res, context)
                  /\ UNCHANGED outcome
    /\ UNCHANGED <<run, context, g, labelmaps, altlabelmaps,
                   ignoreEntityInstantiationEntityList, classMap, incrementalInt,
                   occurrences>>
    /\ UNCHANGED inputVars
    /\ UNCHANGED resolverVars

\* __serialize_graph: the descriptors are handed to the graph store and the
\* text it renders is returned
SerializeGraph ==
    /\ pc = "serialize"
    /\ pc' = "returned"
    /\ outcome' = "returned"
    /\ UNCHANGED <<run, context, g, labelmaps, altlabelmaps,
                   ignoreEntityInstantiationEntityList, classMap, classList, idMap,
                   incrementalInt, uuidCount, runLog, occurrences, replaced>>
    /\ UNCHANGED inputVars
    /\ UNCHANGED resolverVars

Next ==
    \/ Map
    \/ MapAgain
    \/ ParseOntos
    \/ CheckTuple
    \/ CreateLabelmaps
    \/ CreateEntityInstationEntityList
    \/ CreateJsonldInstances
    \/ ApplyNamespaces
    \/ ApplyUuids
    \/ SerializeGraph

Spec == Init /\ [][Next]_vars

(***************************************************************************)
(* Direct calls of the label resolver, on the label index built from a     *)
(* small ontology: the specification the resolver's claims are checked     *)
(* under.                                                                  *)
(***************************************************************************)
ResolverTriples ==
    {Triple(p, "Person", l, c) : p \in {"lbl", "alt"},
                                 l \in {"en", "en-us", "en-gb", "", "de", "fr"},
                                 c \in {"ex:A", "ex:B"}}
RECURSIVE SubsetsUpTo(_, _)
SubsetsUpTo(S, n) ==
    IF n = 0 THEN {{}}
    ELSE LET smaller == SubsetsUpTo(S, n - 1)
         IN smaller \cup {t \cup {x} : t \in smaller, x \in S}
ResolverGraphs == SubsetsUpTo(ResolverTriples, MaxTriples)
ResolverLabels == {JStr("Person"), JStr("Other"), JInt("5"), JList(<<JStr("Person")>>)}
ResolverDefaults == {JNull, JStr("dflt"), JStr(""), JInt("0")}

\* the ontology has been parsed into the graph
LoadGraph ==
    /\ pc = "idle"
    /\ g' \in ResolverGraphs
    /\ pc' = "r_labelmaps"
    /\ UNCHANGED <<run, context, labelmaps, altlabelmaps,
                   ignoreEntityInstantiationEntityList, classMap, classList, idMap,
                   incrementalInt, uuidCount, outcome>>
    /\ UNCHANGED inputVars
    /\ UNCHANGED logVars
    /\ UNCHANGED resolverVars

BuildIndex == CreateLabelmapsAt("r_labelmaps", "r_ready")

\* one call __get_class_by_label(label, default)
ResolveLabel ==
    /\ pc = "r_ready"
    /\ \E l \in ResolverLabels, d \in ResolverDefaults :
          /\ rLabel' = l
          /\ rDefault' = d
          /\ rResult' = GetClassByLabel(l, d, altlabelmaps, labelmaps)
    /\ pc' = "r_resolved"
    /\ UNCHANGED <<run, context, g, labelmaps, altlabelmaps,
                   ignoreEntityInstantiationEntityList, classMap, classList, idMap,
                   incrementalInt, uuidCount, outcome>>
    /\ UNCHANGED inputVars
    /\ UNCHANGED logVars

NextResolver ==
    \/ LoadGraph
    \/ BuildIndex
    \/ ResolveLabel

SpecResolver == Init /\ [][NextResolver]_vars

(***************************************************************************)
(* The claims.                                                             *)
(***************************************************************************)

\* ---- C1 ----------------------------------------------------------------
\* The order of the maps as the claim lists it
C1_ClaimedOrder == << <<"alt", "en">>, <<"alt", "en-us">>, <<"alt", "en-gb">>,
                      <<"alt", "nolang">>, <<"lbl", "en">>, <<"lbl", "en-us">>,
                      <<"lbl", "en-gb">>, <<"lbl", "nolang">>, <<"alt", "de">>,
                      <<"lbl", "de">> >>
C1_Map(i) == IF C1_ClaimedOrder[i][1] = "alt"
             THEN altlabelmaps[C1_ClaimedOrder[i][2]]
             ELSE labelmaps[C1_ClaimedOrder[i][2]]
C1_Hit(i) == rLabel.v \in DOMAIN C1_Map(i)

\* C1: for a string label, the resolver returns the identifier of the first
\* map holding the label, the maps taken in the order alt(en), alt(en-us),
\* alt(en-gb), alt(nolang), lbl(en), lbl(en-us), lbl(en-gb), lbl(nolang),
\* alt(de), lbl(de); a later map never wins over an earlier one, and a label
\* held only by maps of other languages is not resolved through them.
C1_FirstHitWins ==
    (pc = "r_resolved" /\ rLabel.t = "str") =>
        /\ \A i \in DOMAIN C1_ClaimedOrder :
              (C1_Hit(i) /\ \A j \in 1..(i - 1) : ~C1_Hit(j))
              => rResult = [raised |-> FALSE, val |-> JStr(C1_Map(i)[rLabel.v])]
        /\ (\A i \in DOMAIN C1_ClaimedOrder : ~C1_Hit(i))
              => (rResult.raised \/ rResult.val = rDefault)

\* a label held by two maps of the order with different identifiers
C1_Witness ==
    /\ pc = "r_resolved"
    /\ rLabel.t = "str"
    /\ \E i, j \in DOMAIN C1_ClaimedOrder :
          /\ i < j
          /\ C1_Hit(i)
          /\ C1_Hit(j)
          /\ C1_Map(i)[rLabel.v] # C1_Map(j)[rLabel.v]

\* ---- C2 ----------------------------------------------------------------
\* C2: after the structural mapper, the descriptor stored under an interim
\* identifier has every key of every descriptor built for an occurrence of
\* that identifier.
C2_MergeMonotone ==
    \A i \in DOMAIN occurrences :
        /\ DictHas(classMap, occurrences[i].id)
        /\ DictKeys(occurrences[i].ldCls)
              \subseteq DictKeys(DictGet(classMap, occurrences[i].id))

\* ---- C3 ----------------------------------------------------------------
C3_InTarget(x) == StartsWith(x, entityContextTuple[1] \o ":")

\* C3: in one run every occurrence of an interim identifier is replaced by
\* the same final identifier, the one the identity map holds for it, and two
\* distinct interim identifiers outside the target namespace are never
\* replaced by the same final identifier.
C3_IdentityMapInjective ==
    \A i, j \in DOMAIN replaced :
        /\ DictHas(idMap, replaced[i][1])
        /\ DictGet(idMap, replaced[i][1]) = JStr(replaced[i][2])
        /\ replaced[i][1] = replaced[j][1] => replaced[i][2] = replaced[j][2]
        /\ (/\ replaced[i][1] # replaced[j][1]
            /\ ~C3_InTarget(replaced[i][1])
            /\ ~C3_InTarget(replaced[j][1]))
           => replaced[i][2] # replaced[j][2]

\* one interim identifier replaced twice and two distinct ones replaced
C3_Witness ==
    /\ pc = "serialize"
    /\ \E i, j \in DOMAIN replaced : i # j /\ replaced[i][1] = replaced[j][1]
    /\ \E i, j \in DOMAIN replaced :
          /\ replaced[i][1] # replaced[j][1]
          /\ ~C3_InTarget(replaced[i][1])
          /\ ~C3_InTarget(replaced[j][1])

\* ---- C4 ----------------------------------------------------------------
\* the keys of the ignore list, as written and as resolved
C4_IgnoredKeys ==
    Elems(ignoreEntityInstantiationList)
    \cup {Resolve(Env, JStr(k), JStr(k)).val.v : k \in Elems(ignoreEntityInstantiationList)}

\* the scalar values of the canonical tree under a key of the ignore list
RECURSIVE C4_IgnoredScalars(_)
C4_IgnoredScalars(v) ==
    IF v.t = "dict"
    THEN UNION {(IF v.v[i][1] \in Elems(ignoreEntityInstantiationList)
                    /\ v.v[i][2].t \notin {"dict", "list"}
                 THEN {v.v[i][2]} ELSE {})
                \cup C4_IgnoredScalars(v.v[i][2]) : i \in DOMAIN v.v}
    ELSE IF v.t = "list" THEN UNION {C4_IgnoredScalars(v.v[i]) : i \in DOMAIN v.v}
    ELSE {}

\* the references held under a key of the ignore list, at any depth
RECURSIVE C4_References(_)
C4_References(v) ==
    IF v.t = "dict"
    THEN UNION {(IF v.v[i][1] \in C4_IgnoredKeys /\ v.v[i][2].t = "dict"
                    /\ DictHas(v.v[i][2], "@id")
                 THEN {DictGet(v.v[i][2], "@id")} ELSE {})
                \cup C4_References(v.v[i][2]) : i \in DOMAIN v.v}
    ELSE IF v.t = "list" THEN UNION {C4_References(v.v[i]) : i \in DOMAIN v.v}
    ELSE {}

\* C4: a scalar of any value under a key of the ignore list becomes the
\* reference {"@id": resolve(value, value)}: the run does not fail on it, and
\* in the returned descriptors the reference is still that resolved term, no
\* final identifier having been minted for it.
C4_IgnoredScalarIsReference ==
    /\ (pc = "raised" /\ outcome = "LabelError") => C4_IgnoredScalars(canon) = {}
    /\ pc = "returned" =>
          C4_References(classList)
             \subseteq {Resolve(Env, x, x).val : x \in C4_IgnoredScalars(canon)}

\* ---- C5 ----------------------------------------------------------------
\* C5: for every list value of an entity's object, the descriptor holds
\* under the list's key a {"@list": [...]} wrapper of as many elements if the
\* key is named in the object's listHandler, and a plain list if it is not.
C5_ListHandlerDecidesOrder ==
    \A i \in DOMAIN occurrences :
        LET src == occurrences[i].src
            out == occurrences[i].ldCls
            named(k) == /\ DictHas(src, "listHandler")
                        /\ DictGet(src, "listHandler").t = "list"
                        /\ JStr(k) \in Elems(DictGet(src, "listHandler").v)
        IN \A k \in DictKeys(src) \ {"listHandler"} :
              DictGet(src, k).t = "list" =>
                 /\ DictHas(out, k)
                 /\ IF named(k)
                    THEN /\ DictGet(out, k).t = "dict"
                         /\ DictKeys(DictGet(out, k)) = {"@list"}
                         /\ Len(DictGet(DictGet(out, k), "@list").v)
                               = Len(DictGet(src, k).v)
                    ELSE DictGet(out, k).t = "list"

\* ---- C6 ----------------------------------------------------------------
\* C6: a resolution call that is given a default and whose label is in no
\* map of the label index returns that default and raises nothing.
C6_DefaultReturned ==
    (/\ pc = "r_resolved"
     /\ rDefault # JNull
     /\ \A i \in DOMAIN SearchOrder : ~InMap(rLabel, MapAt(altlabelmaps, labelmaps, i)))
    => rResult = [raised |-> FALSE, val |-> rDefault]

\* ---- C7 ----------------------------------------------------------------
\* the labels of the canonical tree: its keys, the two directives left out
RECURSIVE C7_Labels(_)
C7_Labels(v) ==
    IF v.t = "dict"
    THEN UNION {({v.v[i][1]} \ {"hasIdentifier", "listHandler"})
                \cup C7_Labels(v.v[i][2]) : i \in DOMAIN v.v}
    ELSE IF v.t = "list" THEN UNION {C7_Labels(v.v[i]) : i \in DOMAIN v.v}
    ELSE {}

\* C7: with RAISE set to "true", a run returns output only if every label of
\* the canonical tree is found in a map of the label index.
C7_StrictModeFails ==
    (pc = "returned" /\ raiseEnv = "true") =>
        \A k \in C7_Labels(canon) :
            \E i \in DOMAIN SearchOrder : InMap(JStr(k), MapAt(altlabelmaps, labelmaps, i))

\* ---- C8 ----------------------------------------------------------------
\* C8: a target-namespace pair that has not exactly two components makes map
\* fail with the configuration error, with no ontology document ingested and
\* the caller's context unchanged, and with no error of an earlier step.
C8_FailsBeforeProcessing ==
    /\ outcome = "ConfigError" => (g = {} /\ context = contextGiven)
    /\ (pc = "raised" /\ Len(entityContextTuple) # 2) => outcome = "ConfigError"

RECURSIVE C10_Rewritten(_), C10_RewrittenItems(_, _, _)
C10_RewrittenItems(items, i, tmp) ==
    IF i > Len(items) THEN tmp
    ELSE LET key == items[i][1]
             value == items[i][2]
         IN IF key \in {"@id", "@type"}
            THEN C10_RewrittenItems(items, i + 1, DictSet(tmp, key, value))
            ELSE C10_RewrittenItems(items, i + 1,
                    DictSet(tmp, Resolve(Env, JStr(key), JStr(key)).val.v,
                            C10_Rewritten(value)))
C10_Rewritten(v) ==
    IF v.t = "dict"
    THEN IF DictHas(v, "@value") THEN JDict(<< <<"@value", DictGet(v, "@value")>> >>)
         ELSE C10_RewrittenItems(v.v, 1, JDict(<<>>))
    ELSE IF v.t = "list" THEN JList([i \in DOMAIN v.v |-> C10_Rewritten(v.v[i])])
    ELSE v

\* C10: after the namespace pass every key of every descriptor, at every
\* depth, that is not a structural marker is the resolver's result for the
\* original key, the values of lists and of objects rewritten alike.
C10_EveryKeyResolved ==
    pc = "uuids" => classList = C10_Rewritten(JList(DictValues(classMap)))

\* ---- C11 ---------------------------------------------------------------
\* the value of hasIdentifier in the object of an occurrence, as text
C11_Declared(o) == PyStr(DictGet(o.src, "hasIdentifier"))
C11_HasField(o) == DictHas(o.src, "hasIdentifier") /\ DictHas(o.src, C11_Declared(o))
C11_FromField(o) == o.key \o "_" \o PyStr(DictGet(o.src, C11_Declared(o)))
C11_FromCounter(o) == o.ctr >= 1 /\ o.id = o.key \o "_" \o ToString(o.ctr)

\* C11 as stated: the identifier of an entity is key_<v>, v the value of the
\* field that hasIdentifier names, and in every other case, the named field
\* being absent included, it is key_<counter>.
C11_CounterOnAnyFailure ==
    \A i \in DOMAIN occurrences :
        IF C11_HasField(occurrences[i])
        THEN occurrences[i].id = C11_FromField(occurrences[i])
        ELSE C11_FromCounter(occurrences[i])

\* C11 as amended: the identifier is key_<v>, v the value of the field that
\* hasIdentifier names; if the object has a hasIdentifier but not the field
\* it names, v is the hasIdentifier value itself and the counter is not
\* drawn; only an object with no hasIdentifier gets key_<counter>.
C11_FallsBackToDeclaredName ==
    \A i \in DOMAIN occurrences :
        LET o == occurrences[i]
        IN IF C11_HasField(o) THEN o.id = C11_FromField(o)
           ELSE IF DictHas(o.src, "hasIdentifier")
                THEN o.id = o.key \o "_" \o C11_Declared(o)
                ELSE C11_FromCounter(o)

\* an entity whose hasIdentifier names an absent field, one with the field
\* and one with no hasIdentifier, in one run
C11_Witness ==
    /\ pc = "namespaces"
    /\ \E i \in DOMAIN occurrences :
          /\ DictHas(occurrences[i].src, "hasIdentifier")
          /\ ~C11_HasField(occurrences[i])
          /\ occurrences[i].id = "Person_id"
    /\ \E i \in DOMAIN occurrences :
          /\ ~DictHas(occurrences[i].src, "hasIdentifier")
          /\ occurrences[i].ctr >= 1

\* ---- C12 ---------------------------------------------------------------
\* the Uppercase-key objects of the canonical tree that carry more than
\* hasIdentifier, at any depth, as <<key, object>>
RECURSIVE C12_Entities(_)
C12_Entities(v) ==
    IF v.t = "dict"
    THEN UNION {(IF FirstIsUpper(v.v[i][1]) /\ v.v[i][2].t = "dict"
                    /\ DictKeys(v.v[i][2]) \ {"hasIdentifier"} # {}
                 THEN {<<v.v[i][1], v.v[i][2]>>} ELSE {})
                \cup C12_Entities(v.v[i][2]) : i \in DOMAIN v.v}
    ELSE IF v.t = "list" THEN UNION {C12_Entities(v.v[i]) : i \in DOMAIN v.v}
    ELSE {}

\* C12: when the structural mapper has finished, a lowercase key with an
\* object value holds a reference to key_sub_<n>, no entry of the entity
\* table is stored under such a sub-identifier, and every Uppercase-key
\* object with more than hasIdentifier, inside a lowercase-key object too,
\* has a descriptor built for it.
C12_NestedStructureRecursed ==
    pc = "namespaces" =>
        /\ \A i \in DOMAIN occurrences :
              \A k \in DictKeys(occurrences[i].src) :
                 (FirstIsLower(k) /\ DictGet(occurrences[i].src, k).t = "dict") =>
                    /\ DictHas(occurrences[i].ldCls, k)
                    /\ DictKeys(DictGet(occurrences[i].ldCls, k)) = {"@id"}
                    /\ StartsWith(DictGet(DictGet(occurrences[i].ldCls, k), "@id").v,
                                  k \o "_sub_")
                    /\ ~DictHas(classMap, DictGet(DictGet(occurrences[i].ldCls, k), "@id").v)
        /\ \A e \in C12_Entities(canon) :
              \E i \in DOMAIN occurrences :
                 occurrences[i].key = e[1] /\ occurrences[i].src = e[2]

\* ---- C13 ---------------------------------------------------------------
\* C13: in one run the identifier of an entity that has no hasIdentifier,
\* built from the counter, is the identifier of no other occurrence, and the
\* entity table holds under it the descriptor built for that entity.
C13_CounterIdentifierUnique ==
    pc = "namespaces" =>
        \A i \in DOMAIN occurrences :
            ~DictHas(occurrences[i].src, "hasIdentifier") =>
                /\ \A j \in DOMAIN occurrences \ {i} :
                      occurrences[j].id # occurrences[i].id
                /\ DictHas(classMap, occurrences[i].id)
                /\ DictKeys(DictGet(classMap, occurrences[i].id))
                      = DictKeys(occurrences[i].ldCls)

\* ---- C14 ---------------------------------------------------------------
\* C14: when the structural mapper has finished, the descriptor stored in
\* the entity table under the interim identifier X has "@id" equal to X.
C14_DescriptorIdIsTableKey ==
    pc = "namespaces" =>
        \A X \in DictKeys(classMap) :
            /\ DictHas(DictGet(classMap, X), "@id")
            /\ DictGet(DictGet(classMap, X), "@id") = JStr(X)

====
